---- MODULE Spec2Model ----
(***************************************************************************)
(* Orchestration engine of the slide-generation pipeline                   *)
(* (backend/agents/orchestration_agent/main.py) over the Cosmos job store  *)
(* (backend/shared/storage/cosmos_client.py).                              *)
(*                                                                         *)
(* The executor runs on one asyncio event loop.  A coroutine gives up the  *)
(* loop only where it awaits a worker call (A2AClient.call_agent);         *)
(* _update_job and the cosmos client are synchronous inside.  One action   *)
(* of this model is therefore one run of a handler or of a task from one   *)
(* suspension point to the next, with every store operation it performs.   *)
(*                                                                         *)
(* Strings are sequences of tokens, so that an f-string is a               *)
(* concatenation.  Optional values are records tagged "None" or "str".     *)
(***************************************************************************)
EXTENDS Naturals, Sequences, FiniteSets, Bags, TLC

\* ---------------------------------------------------------------- bounds
MaxJobs == 1
MaxTasks == 3
MaxStoreFaults == 1
MaxApiTasks == 2
MaxPairJobs == 2
MaxSlides == 11

\* ------------------------------------------------------- program constants
PROGRESS_DEFAULT == 0
\* the progress the start response reports
PROGRESS_AGENDA == 10
PROGRESS_APPROVAL == 25
PROGRESS_INFORMATION == 50
PROGRESS_SLIDE == 75
PROGRESS_REVIEW == 90
PROGRESS_COMPLETED == 100
\* SlideGenerationRequest.max_slides when the request names none
DEFAULT_MAX_SLIDES == 10
\* the most content slides _create_fallback_agenda puts between the title
\* and the summary slide
FALLBACK_CONTENT_CAP == 8

\* HTTP status codes of the endpoints (200 is FastAPI's default on return)
HTTP_OK == 200
HTTP_UNAUTHORIZED == 401
HTTP_NOT_FOUND == 404
HTTP_SERVER_ERROR == 500

\* SlideGenerationStatus
PENDING == "pending"
AGENDA_GENERATION == "agenda_generation"
AGENDA_APPROVAL == "agenda_approval"
INFORMATION_COLLECTION == "information_collection"
SLIDE_CREATION == "slide_creation"
REVIEW == "review"
COMPLETED == "completed"
FAILED == "failed"

SlideGenerationStatus ==
    {PENDING, AGENDA_GENERATION, AGENDA_APPROVAL, INFORMATION_COLLECTION,
     SLIDE_CREATION, REVIEW, COMPLETED, FAILED}

\* current_step labels (the source's Japanese texts, named in ASCII)
STEP_AGENDA == <<"agenda generating...">>
STEP_APPROVAL == <<"waiting for agenda approval...">>
STEP_INFORMATION == <<"collecting information...">>
STEP_SLIDE == <<"creating slides...">>
STEP_REVIEW == <<"quality check...">>
STEP_COMPLETED == <<"done">>
STEP_ERROR == <<"an error occurred">>

\* error texts
REJECTED_TEXT == <<"User rejected agenda">>
AGENDA_FAILED_PREFIX == <<"Agenda generation failed: ">>
INFO_FAILED_PREFIX == <<"Information collection failed: ">>
SLIDE_FAILED_PREFIX == <<"Slide creation failed: ">>
\* str(e) of the AttributeError raised by job.agenda.dict() when job.agenda
\* is a plain dict or None (pydantic does not validate on assignment)
ATTRIBUTE_ERROR == <<"object has no attribute 'dict'">>
\* str(e) of an exception raised by the cosmos client
STORE_ERROR == <<"cosmos error">>

\* -------------------------------------------------------- optional values
None == [tag |-> "None"]
Str(s) == [tag |-> "str", val |-> s]
IsNone(x) == "tag" \in DOMAIN x /\ x.tag = "None"

\* ------------------------------------------------------------ input sets
JobIds == 1..MaxJobs
\* the job ids of the runs with several jobs
PairJobIds == 1..MaxPairJobs
Users == {"u1", "u2"}
\* the users who start jobs (the others only send signals)
Owners == {"u1"}
\* agendas: the sequence of slide titles (an agenda may have no slide)
AgendaContents == {<<>>, <<"t1">>}
ReplacementAgendas == {<<"t2", "t3">>}
WorkerErrors == {REJECTED_TEXT}
RaisedErrors == {<<"connection reset">>}
SlideUrls == {<<"https://blob/deck.pptx">>}

\* an agenda held by a job object: a SlideAgenda model or a plain dict
AgendaModel(slides) == [tag |-> "model", slides |-> slides]
AgendaDict(slides) == [tag |-> "dict", slides |-> slides]

\* a worker's answer to call_agent
RespOk(res) == [kind |-> "ok", res |-> res, msg |-> <<>>]
RespFail(m) == [kind |-> "fail", res |-> <<>>, msg |-> m]
RespRaise(m) == [kind |-> "raise", res |-> <<>>, msg |-> m]

\* the "agenda" field of an approve signal's payload, when it carries one
AgendaPayload(a) == [kind |-> "agenda", res |-> a, msg |-> <<>>]

VARIABLES
    slide_jobs,          \* container slide_jobs: job id -> item or None
    generation_history,  \* container generation_history: sequence of items
    tasks,               \* the asyncio tasks that have not ended (a bag)
    spawned,             \* asyncio.create_task calls so far
    calls,               \* per job: the workers called so far
    faults,              \* store operations that raised so far
    approved,            \* jobs for which an approve signal was processed
    rejected,            \* jobs for which a reject signal was processed
    worker_failed,       \* per job: stages whose worker returned a failure
    completed,           \* jobs for which COMPLETED has been persisted
    last                 \* the step just taken: what ran and how it ended

vars == <<slide_jobs, generation_history, tasks, spawned, calls, faults,
          approved, rejected, worker_failed, completed, last>>

\* ------------------------------------------------------------ data model
\* most store operations one run performs: two updates and the two
\* handlers' updates
MaxOps == 4
StoreOutcomes == [1..MaxOps -> BOOLEAN]
UNTITLED == <<"untitled">>

\* SlideGenerationRequest (the fields the orchestrator reads)
SlideGenerationRequestWith(auto, limit) ==
    [auto_approval |-> auto, max_slides |-> limit]

\* a request that leaves max_slides to its default
SlideGenerationRequest(auto) == SlideGenerationRequestWith(auto, DEFAULT_MAX_SLIDES)

SlideGenerationJob_late(id, user, req) ==
    [id |-> id, user_id |-> user, request |-> req,
     status |-> INFORMATION_COLLECTION, agenda |-> None,
     progress |-> PROGRESS_INFORMATION,
     current_step |-> STEP_INFORMATION, result_blob_url |-> None,
     error_message |-> None]

\* SlideGenerationJob as built by _handle_slide_generation
SlideGenerationJob(id, user, req) ==
    [id |-> id, user_id |-> user, request |-> req,
     status |-> AGENDA_GENERATION, agenda |-> None,
     progress |-> PROGRESS_DEFAULT,
     current_step |-> STEP_AGENDA, result_blob_url |-> None,
     error_message |-> None]

\* job.dict(): a SlideAgenda model and a plain dict both dump to a dict
job_dict(job) ==
    [job EXCEPT !.agenda = IF IsNone(@) THEN None ELSE AgendaDict(@.slides)]

JobFromItem_reset(item) ==
    [item EXCEPT !.agenda = IF IsNone(@) THEN None ELSE AgendaModel(@.slides),
                 !.request = SlideGenerationRequest(TRUE)]

\* SlideGenerationJob(**job_data): construction validates, so the stored
\* agenda dict becomes a SlideAgenda model
JobFromItem(item) ==
    [item EXCEPT !.agenda = IF IsNone(@) THEN None ELSE AgendaModel(@.slides)]

GenerationHistory_untitled(job) ==
    [job_id |-> job.id, user_id |-> job.user_id, title |-> UNTITLED,
     slide_count |-> IF ~IsNone(job.agenda) THEN Len(job.agenda.slides) ELSE 0,
     blob_url |-> job.result_blob_url]

\* GenerationHistory built at completion
GenerationHistory(job) ==
    [job_id |-> job.id, user_id |-> job.user_id,
     title |-> IF ~IsNone(job.agenda) /\ Len(job.agenda.slides) > 0
               THEN <<job.agenda.slides[1]>> ELSE UNTITLED,
     slide_count |-> IF ~IsNone(job.agenda) THEN Len(job.agenda.slides) ELSE 0,
     blob_url |-> job.result_blob_url]

\* ------------------------------------------------------- cosmos client
\* update_item: replace_item of the item with that id, or the exception
update_item_shared(db, item, ok) ==
    IF ok THEN [db |-> [db EXCEPT ![1] = item], exc |-> None]
    ELSE [db |-> db, exc |-> Str(STORE_ERROR)]

update_item(db, item, ok) ==
    IF ok THEN [db |-> [db EXCEPT ![item.id] = item], exc |-> None]
    ELSE [db |-> db, exc |-> Str(STORE_ERROR)]

read_item_any(db, id, partition_key) == db[id]

\* read_item: the item under (id, partition key), None when absent there
read_item(db, id, partition_key) ==
    IF ~IsNone(db[id]) /\ db[id].user_id = partition_key THEN db[id] ELSE None

\* ----------------------------------------- one run of a task or handler
\* The state a run threads through its statements: the job object, the two
\* containers, the worker calls it issued, the statuses it persisted in
\* order (writes), the store operations it used (k) and how many of them
\* raised (nf), the pending exception, where the task stands when the run
\* is over, and the assembly worker's slide_url.
Run(job, pc, slide_url) ==
    [job |-> job, db |-> slide_jobs, hist |-> generation_history,
     issued |-> <<>>, writes |-> <<>>, k |-> 0, nf |-> 0, exc |-> None,
     pc |-> pc, slide_url |-> slide_url]

Raise(m, msg) == [m EXCEPT !.exc = Str(msg)]

\* the element of a singleton set; {F(x) : x \in {e}} has e evaluated once
Only(S) == CHOOSE x \in S : TRUE

_update_job_purging(run, so) ==
    Only({LET r == update_item(m.db, job_dict(m.job), so[m.k + 1])
          IN [m EXCEPT !.db = IF m.job.status = FAILED
                              THEN [r.db EXCEPT ![m.job.id] = None] ELSE r.db,
                       !.exc = r.exc, !.k = @ + 1,
                       !.nf = IF so[m.k + 1] THEN @ ELSE @ + 1,
                       !.writes = IF so[m.k + 1] THEN Append(@, m.job.status)
                                  ELSE @] : m \in {run}})

\* _update_job: persist job.dict(); so[k] tells whether the k-th store
\* operation of this run succeeds
_update_job(run, so) ==
    Only({LET r == update_item(m.db, job_dict(m.job), so[m.k + 1])
          IN [m EXCEPT !.db = r.db, !.exc = r.exc, !.k = @ + 1,
                       !.nf = IF so[m.k + 1] THEN @ ELSE @ + 1,
                       !.writes = IF so[m.k + 1] THEN Append(@, m.job.status)
                                  ELSE @] : m \in {run}})

\* cosmos_client.create_item("generation_history", history.dict())
create_history(m, so) ==
    IF so[m.k + 1]
    THEN [m EXCEPT !.hist = Append(@, GenerationHistory(m.job)), !.k = @ + 1]
    ELSE [m EXCEPT !.exc = Str(STORE_ERROR), !.k = @ + 1, !.nf = @ + 1]

\* job.agenda.dict() in a worker payload: AttributeError unless job.agenda
\* is a SlideAgenda model
agenda_dict(m) ==
    IF m.job.agenda.tag = "model" THEN m ELSE Raise(m, ATTRIBUTE_ERROR)

SetStage(m, status, progress, step) ==
    [m EXCEPT !.job.status = status, !.job.progress = progress,
              !.job.current_step = step]

\* the worker call is issued and the task suspends on it
CallAgent(m, stage, pc) ==
    [m EXCEPT !.issued = Append(@, stage), !.pc = pc]

CheckResponse_unprefixed(m, resp, prefix) ==
    IF resp.kind \in {"raise", "fail"} THEN Raise(m, resp.msg) ELSE m

CheckResponse_verbatim(m, resp, prefix) ==
    IF resp.kind = "ok" THEN m ELSE Raise(m, resp.msg)

\* "if not response.success: raise Exception(f'...: {response.error}')",
\* and an exception raised by the call itself
CheckResponse(m, resp, prefix) ==
    IF resp.kind = "raise" THEN Raise(m, resp.msg)
    ELSE IF resp.kind = "fail" THEN Raise(m, prefix \o resp.msg)
    ELSE m

\* the review call: review_response is stored and never inspected, so only
\* an exception of the call itself leaves the straight path
AwaitReview_checked(m, resp) == CheckResponse(m, resp, <<"Review failed: ">>)

AwaitReview(m, resp) ==
    IF resp.kind = "raise" THEN Raise(m, resp.msg) ELSE m

ExceptHandler_generic(run, so) ==
    Only({IF IsNone(m.exc) THEN m
          ELSE Only({IF IsNone(m1.exc) THEN [m1 EXCEPT !.pc = "done"] ELSE m1 :
                     m1 \in {_update_job(
                               [m EXCEPT !.job.status = FAILED,
                                         !.job.error_message = Str(STEP_ERROR),
                                         !.job.current_step = STEP_ERROR,
                                         !.exc = None], so)}}) : m \in {run}})

\* except Exception as e: status FAILED, error_message str(e), update
ExceptHandler(run, so) ==
    Only({IF IsNone(m.exc) THEN m
          ELSE Only({IF IsNone(m1.exc) THEN [m1 EXCEPT !.pc = "done"] ELSE m1 :
                     m1 \in {_update_job(
                               [m EXCEPT !.job.status = FAILED,
                                         !.job.error_message = m.exc,
                                         !.job.current_step = STEP_ERROR,
                                         !.exc = None], so)}}) : m \in {run}})

\* _continue_after_approval, the try body from `pc` to the next await
ContinueBody(m, so, pc, resp) ==
    CASE pc = "enter" ->
           LET m1 == _update_job(SetStage(m, INFORMATION_COLLECTION,
                                          PROGRESS_INFORMATION,
                                          STEP_INFORMATION), so)
               m2 == agenda_dict(m1)
           IN IF ~IsNone(m1.exc) THEN m1
              ELSE IF ~IsNone(m2.exc) THEN m2
              ELSE CallAgent(m2, "information", "info_call")
      [] pc = "info_call" ->
           LET m0 == CheckResponse(m, resp, INFO_FAILED_PREFIX)
               m1 == _update_job(SetStage(m0, SLIDE_CREATION, PROGRESS_SLIDE,
                                          STEP_SLIDE), so)
               m2 == agenda_dict(m1)
           IN IF ~IsNone(m0.exc) THEN m0
              ELSE IF ~IsNone(m1.exc) THEN m1
              ELSE IF ~IsNone(m2.exc) THEN m2
              ELSE CallAgent(m2, "slide", "slide_call")
      [] pc = "slide_call" ->
           LET m0 == CheckResponse(m, resp, SLIDE_FAILED_PREFIX)
               m1 == _update_job(SetStage(m0, REVIEW, PROGRESS_REVIEW,
                                          STEP_REVIEW), so)
               m2 == agenda_dict([m1 EXCEPT !.slide_url = Str(resp.res)])
           IN IF ~IsNone(m0.exc) THEN m0
              ELSE IF ~IsNone(m1.exc) THEN m1
              ELSE IF ~IsNone(m2.exc) THEN m2
              ELSE CallAgent(m2, "review", "review_call")
      [] pc = "review_call" ->
           LET m0 == AwaitReview(m, resp)
               m1 == _update_job(
                       [SetStage(m0, COMPLETED, PROGRESS_COMPLETED,
                                 STEP_COMPLETED)
                          EXCEPT !.job.result_blob_url = m0.slide_url], so)
               m2 == create_history(m1, so)
           IN IF ~IsNone(m0.exc) THEN m0
              ELSE IF ~IsNone(m1.exc) THEN m1
              ELSE IF ~IsNone(m2.exc) THEN m2
              ELSE [m2 EXCEPT !.pc = "done"]

_continue_after_approval(m, so, pc, resp) ==
    ExceptHandler(ContinueBody(m, so, pc, resp), so)

ProcessBody_eager(m, so, pc, resp) ==
    CASE pc = "start" -> CallAgent(m, "agenda", "agenda_call")
      [] pc = "agenda_call" ->
           LET m0 == CheckResponse(m, resp, AGENDA_FAILED_PREFIX)
               m1 == _update_job(
                       [SetStage(m0, AGENDA_APPROVAL, PROGRESS_APPROVAL,
                                 STEP_APPROVAL)
                          EXCEPT !.job.agenda = AgendaDict(resp.res)], so)
           IN IF ~IsNone(m0.exc) THEN m0
              ELSE IF ~IsNone(m1.exc) THEN m1
              ELSE _continue_after_approval(m1, so, "enter", resp)
      [] OTHER -> _continue_after_approval(m, so, pc, resp)

\* _process_slide_generation, the try body from `pc` to the next await;
\* with auto_approval it runs _continue_after_approval inside its own try
ProcessBody(m, so, pc, resp) ==
    CASE pc = "start" -> CallAgent(m, "agenda", "agenda_call")
      [] pc = "agenda_call" ->
           LET m0 == CheckResponse(m, resp, AGENDA_FAILED_PREFIX)
               m1 == _update_job(
                       [SetStage(m0, AGENDA_APPROVAL, PROGRESS_APPROVAL,
                                 STEP_APPROVAL)
                          EXCEPT !.job.agenda = AgendaDict(resp.res)], so)
           IN IF ~IsNone(m0.exc) THEN m0
              ELSE IF ~IsNone(m1.exc) THEN m1
              ELSE IF m1.job.request.auto_approval
                   THEN _continue_after_approval(m1, so, "enter", resp)
                   ELSE [m1 EXCEPT !.pc = "done"]
      [] OTHER -> _continue_after_approval(m, so, pc, resp)

_process_slide_generation(m, so, pc, resp) ==
    ExceptHandler(ProcessBody(m, so, pc, resp), so)

\* a task's run from `pc`; an exception that leaves the coroutine ends the
\* task ("crashed": asyncio only logs it)
TaskRun(fn, m, so, pc, resp) ==
    LET r == IF fn = "process" THEN _process_slide_generation(m, so, pc, resp)
             ELSE _continue_after_approval(m, so, pc, resp)
    IN IF IsNone(r.exc) THEN r ELSE [r EXCEPT !.pc = "crashed"]

\* ---------------------------------------------------------------- state
NoResp == [kind |-> "none", res |-> <<>>, msg |-> <<>>]

\* an asyncio task: the coroutine it runs, the job object it holds, where it
\* is suspended, and the assembly worker's slide_url once it has it
Task(fn, job, pc) ==
    [fn |-> fn, job_id |-> job.id, job |-> job, pc |-> pc, slide_url |-> None]

Scheduled == {"start", "enter"}
Waiting == {"agenda_call", "info_call", "slide_call", "review_call"}
Ended == {"done", "crashed"}

\* what the step just taken was: the operation, the user it ran for (the
\* caller of a handler, the owner of a task's job), its job, the worker's
\* answer it consumed (for an approve signal: the replacement agenda it
\* carried), the store operations that raised in it, where it
\* left the task, whether it ended without an exception, the job object's
\* result_blob_url when it began, the record's status before it, the
\* statuses it persisted, in order, and the workers it called
Step(op, user, job, resp, nf, pc, success, url, before, writes, issued) ==
    [op |-> op, user |-> user, job |-> job, resp |-> resp, nf |-> nf, pc |-> pc,
     success |-> success, url |-> url, before |-> before, writes |-> writes,
     issued |-> issued]

\* the status of job j's record, "none" without a record
StatusOf(j) == IF IsNone(slide_jobs[j]) THEN "none" ELSE slide_jobs[j].status

\* the state after construction, for the job ids `ids`
InitIn(ids) ==
    /\ slide_jobs = [j \in ids |-> None]
    /\ generation_history = <<>>
    /\ tasks = EmptyBag
    /\ spawned = 0
    /\ calls = [j \in ids |-> {}]
    /\ faults = 0
    /\ approved = {}
    /\ rejected = {}
    /\ worker_failed = [j \in ids |-> {}]
    /\ completed = {}
    /\ last = Step("init", "none", 0, NoResp, 0, "none", TRUE, None, "none", <<>>, {})

Init == InitIn(JobIds)

\* the outcomes `so` fixes are those of the operations the run performs,
\* and the store raises at most MaxStoreFaults times in one behaviour
Admissible(so, k, nf) ==
    /\ \A i \in 1..MaxOps : i > k => so[i]
    /\ faults + nf <= MaxStoreFaults

\* the outcomes of a run's store operations the fault budget still allows
Outcomes ==
    IF faults >= MaxStoreFaults THEN {[i \in 1..MaxOps |-> TRUE]}
    ELSE StoreOutcomes

\* asyncio.create_task
create_task(t) == tasks (+) SetToBag({t})

\* the elements of a sequence
Stages(seq) == {seq[i] : i \in 1..Len(seq)}

\* the effect of task t's run r on the program state
Commit(t, r, op, resp) ==
    LET j == t.job_id
        t1 == [t EXCEPT !.pc = r.pc, !.job = r.job, !.slide_url = r.slide_url]
    IN /\ slide_jobs' = r.db
       /\ generation_history' = r.hist
       /\ tasks' = IF r.pc \in Ended THEN tasks (-) SetToBag({t})
                   ELSE (tasks (-) SetToBag({t})) (+) SetToBag({t1})
       /\ calls' = [calls EXCEPT ![j] = @ \cup Stages(r.issued)]
       /\ faults' = faults + r.nf
       /\ worker_failed' =
            IF resp.kind = "fail"
            THEN [worker_failed EXCEPT ![j] = @ \cup {op}]
            ELSE worker_failed
       /\ completed' = IF COMPLETED \in Stages(r.writes)
                       THEN completed \cup {j} ELSE completed
       /\ last' = Step(op, t.job.user_id, j, resp, r.nf, r.pc, IsNone(r.exc),
                       t.job.result_blob_url, StatusOf(j), r.writes,
                       Stages(r.issued))
       /\ UNCHANGED <<spawned, approved, rejected>>

get_job_status_any(j, user) == slide_jobs[j]

\* GET /jobs/{job_id}: the caller's record, None (404) when there is none
get_job_status(j, user) == read_item(slide_jobs, j, user)

\* POST /approve-agenda: the result on success, HTTPException(500) otherwise
approve_agenda(success) == IF success THEN HTTP_OK ELSE HTTP_SERVER_ERROR

\* the status code of GET /jobs/{job_id}
get_job_status_code(j, user) ==
    IF IsNone(get_job_status(j, user)) THEN HTTP_NOT_FOUND ELSE HTTP_OK

\* ------------------------------------------------------------- handlers
StartJobWith_detached(ids, user, req, ok) ==
    /\ \E j \in ids : IsNone(slide_jobs[j])
    /\ spawned < MaxTasks
    /\ LET j == CHOOSE i \in ids :
                  IsNone(slide_jobs[i]) /\ \A h \in 1..(i - 1) : ~IsNone(slide_jobs[h])
           job == SlideGenerationJob(j, user, req)
       IN IF ok
          THEN /\ slide_jobs' = [slide_jobs EXCEPT ![j] = job_dict(job)]
               /\ tasks' = create_task(Task("process", job, "start"))
               /\ spawned' = spawned + 1
               /\ last' = Step("start_job", user, j, NoResp, 0, "start", TRUE, None,
                               "none", <<job.status>>, {})
               /\ UNCHANGED faults
          ELSE /\ faults < MaxStoreFaults
               /\ faults' = faults + 1
               /\ last' = Step("start_job", user, j, NoResp, 1, "none", FALSE, None,
                               "none", <<>>, {})
               /\ tasks' = create_task(Task("process", job, "start"))
               /\ spawned' = spawned + 1
               /\ UNCHANGED slide_jobs
    /\ UNCHANGED <<generation_history, calls, approved, rejected, worker_failed,
                   completed>>

\* _handle_slide_generation: create the record under a fresh id (uuid4: the
\* least id no job has had), spawn the pipeline task
StartJobWith(ids, user, req, ok) ==
    /\ \E j \in ids : IsNone(slide_jobs[j])
    /\ spawned < MaxTasks
    /\ LET j == CHOOSE i \in ids :
                  IsNone(slide_jobs[i]) /\ \A h \in 1..(i - 1) : ~IsNone(slide_jobs[h])
           job == SlideGenerationJob(j, user, req)
       IN IF ok
          THEN /\ slide_jobs' = [slide_jobs EXCEPT ![j] = job_dict(job)]
               /\ tasks' = create_task(Task("process", job, "start"))
               /\ spawned' = spawned + 1
               /\ last' = Step("start_job", user, j, NoResp, 0, "start", TRUE, None,
                               "none", <<job.status>>, {})
               /\ UNCHANGED faults
          ELSE /\ faults < MaxStoreFaults
               /\ faults' = faults + 1
               /\ last' = Step("start_job", user, j, NoResp, 1, "none", FALSE, None,
                               "none", <<>>, {})
               /\ UNCHANGED <<slide_jobs, tasks, spawned>>
    /\ UNCHANGED <<generation_history, calls, approved, rejected, worker_failed,
                   completed>>

StartJobIn(ids, user, auto, ok) ==
    StartJobWith(ids, user, SlideGenerationRequest(auto), ok)

StartJob(user, auto, ok) == StartJobIn(JobIds, user, auto, ok)

\* the label of a signal that found no record
NotFound(op) ==
    CASE op = "approve" -> "approve_not_found"
      [] op = "reject" -> "reject_not_found"
      [] op = "undecided" -> "undecided_not_found"

\* _handle_agenda_approval where `approved` is true; op names the signal
\* the caller sent
ApproveBranch(op, user, j, updated_agenda, ok) ==
    /\ spawned < MaxTasks
    /\ LET job_data == read_item(slide_jobs, j, user)
           job0 == JobFromItem(job_data)
           job == IF IsNone(updated_agenda) THEN job0
                  ELSE [job0 EXCEPT !.agenda = AgendaDict(updated_agenda.val)]
       IN IF ~ok
          THEN /\ faults < MaxStoreFaults
               /\ faults' = faults + 1
               /\ last' = Step(op, user, j, NoResp, 1, "none", FALSE, None,
                               StatusOf(j), <<>>, {})
               /\ UNCHANGED <<tasks, spawned, approved>>
          ELSE IF IsNone(job_data)
          THEN /\ last' = Step(NotFound(op), user, j, NoResp, 0, "none", FALSE,
                               None, StatusOf(j), <<>>, {})
               /\ UNCHANGED <<tasks, spawned, faults, approved>>
          ELSE /\ tasks' = create_task(Task("continue", job, "enter"))
               /\ spawned' = spawned + 1
               /\ approved' = approved \cup {j}
               /\ last' = Step(op, user, j,
                               IF IsNone(updated_agenda) THEN NoResp
                               ELSE AgendaPayload(updated_agenda.val),
                               0, "enter", TRUE,
                               job.result_blob_url, StatusOf(j), <<>>, {})
               /\ UNCHANGED faults
    /\ UNCHANGED <<slide_jobs, generation_history, calls, rejected, worker_failed,
                   completed>>

\* _handle_agenda_approval with approved = true
ApproveAgenda(user, j, updated_agenda, ok) ==
    ApproveBranch("approve", user, j, updated_agenda, ok)

\* the job object a rejection persists
RejectedJob_guarded(job) ==
    IF job.status = AGENDA_APPROVAL
    THEN [job EXCEPT !.status = FAILED, !.error_message = Str(REJECTED_TEXT)]
    ELSE job

RejectedJob(job) ==
    [job EXCEPT !.status = FAILED, !.error_message = Str(REJECTED_TEXT)]

\* _handle_agenda_approval where `approved` is false; op names the signal
\* the caller sent
RejectBranch(op, user, j, so) ==
    LET job_data == read_item(slide_jobs, j, user)
        job == RejectedJob(JobFromItem(job_data))
        m0 == [Run(job, "none", None) EXCEPT !.k = 1]
        m1 == _update_job(m0, so)
    IN /\ IF ~so[1]
          THEN /\ Admissible(so, 1, 1)
               /\ faults' = faults + 1
               /\ last' = Step(op, user, j, NoResp, 1, "none", FALSE, None,
                               StatusOf(j), <<>>, {})
               /\ UNCHANGED <<slide_jobs, rejected>>
          ELSE IF IsNone(job_data)
          THEN /\ Admissible(so, 1, 0)
               /\ last' = Step(NotFound(op), user, j, NoResp, 0, "none", FALSE,
                               None, StatusOf(j), <<>>, {})
               /\ UNCHANGED <<slide_jobs, rejected, faults>>
          ELSE /\ Admissible(so, m1.k, m1.nf)
               /\ slide_jobs' = m1.db
               /\ faults' = faults + m1.nf
               /\ rejected' = IF IsNone(m1.exc) THEN rejected \cup {j} ELSE rejected
               /\ last' = Step(op, user, j, NoResp, m1.nf, "none", IsNone(m1.exc),
                               job.result_blob_url, StatusOf(j), m1.writes, {})
       /\ UNCHANGED <<generation_history, tasks, spawned, calls, approved,
                      worker_failed, completed>>

\* _handle_agenda_approval with approved = false
RejectAgenda(user, j, so) == RejectBranch("reject", user, j, so)

Approved_lenient(payload) ==
    IF "approved" \in DOMAIN payload THEN payload.approved ELSE TRUE

\* request.payload.get("approved", False)
Approved(payload) ==
    IF "approved" \in DOMAIN payload THEN payload.approved ELSE FALSE

\* _handle_agenda_approval for a payload that carries a job id and no
\* 'approved' field (and no agenda)
UndecidedSignal(user, j, so) ==
    LET payload == [job_id |-> j]
    IN IF Approved(payload)
       THEN ApproveBranch("undecided", user, payload.job_id, None, so[1])
       ELSE RejectBranch("undecided", user, payload.job_id, so)

\* ---------------------------------------------------------------- tasks
\* the event loop starts a task that create_task has scheduled
TaskStart(t, so) ==
    /\ t.pc \in Scheduled
    /\ \E r \in {TaskRun(t.fn, Run(t.job, t.pc, None), so, t.pc, NoResp)} :
         /\ Admissible(so, r.k, r.nf)
         /\ Commit(t, r, "task_start", NoResp)

\* the answer of the worker a task awaits arrives and the task runs on
Resume(t, stage, pc, resp, so) ==
    /\ t.pc = pc
    /\ \E r \in {TaskRun(t.fn, Run(t.job, pc, t.slide_url), so, pc, resp)} :
         /\ Admissible(so, r.k, r.nf)
         /\ Commit(t, r, stage, resp)

Failures == {RespFail(m) : m \in WorkerErrors} \cup {RespRaise(m) : m \in RaisedErrors}

AgendaResponse(t) ==
    \E resp \in {RespOk(a) : a \in AgendaContents} \cup Failures :
      \E so \in Outcomes : Resume(t, "agenda", "agenda_call", resp, so)

InformationResponse(t) ==
    \E resp \in {RespOk(<<>>)} \cup Failures :
      \E so \in Outcomes : Resume(t, "information", "info_call", resp, so)

SlideResponse(t) ==
    \E resp \in {RespOk(u) : u \in SlideUrls} \cup Failures :
      \E so \in Outcomes : Resume(t, "slide", "slide_call", resp, so)

ReviewResponse(t) ==
    \E resp \in {RespOk(<<>>)} \cup Failures :
      \E so \in Outcomes : Resume(t, "review", "review_call", resp, so)

\* the worker a task awaits never answers: call_agent is awaited with no
\* timeout (no asyncio.wait_for around it), so the task stays suspended
WorkerHangs(t) ==
    /\ t.pc \in Waiting
    /\ tasks' = (tasks (-) SetToBag({t})) (+) SetToBag({[t EXCEPT !.pc = "hung"]})
    /\ last' = Step("hang", t.job.user_id, t.job_id, NoResp, 0, "hung", TRUE,
                    t.job.result_blob_url, StatusOf(t.job_id), <<>>, {})
    /\ UNCHANGED <<slide_jobs, generation_history, spawned, calls, faults,
                   approved, rejected, worker_failed, completed>>

Next ==
    \/ \E u \in Owners, auto \in BOOLEAN, ok \in BOOLEAN : StartJob(u, auto, ok)
    \/ \E u \in Users, j \in JobIds, ok \in BOOLEAN,
          a \in {None} \cup {Str(x) : x \in ReplacementAgendas} :
            ApproveAgenda(u, j, a, ok)
    \/ \E u \in Users, j \in JobIds, so \in Outcomes : RejectAgenda(u, j, so)
    \/ \E t \in BagToSet(tasks), so \in Outcomes : TaskStart(t, so)
    \/ \E t \in BagToSet(tasks) : AgendaResponse(t)
    \/ \E t \in BagToSet(tasks) : InformationResponse(t)
    \/ \E t \in BagToSet(tasks) : SlideResponse(t)
    \/ \E t \in BagToSet(tasks) : ReviewResponse(t)
    \/ \E t \in BagToSet(tasks) : WorkerHangs(t)

Spec == Init /\ [][Next]_vars

\* ---------------------------------------------------------- several jobs
AllOk == [i \in 1..MaxOps |-> TRUE]

\* the pipelines of up to MaxPairJobs jobs of one user, interleaved, with
\* no store fault
PairNext ==
    \/ \E u \in Owners, auto \in BOOLEAN : StartJobIn(PairJobIds, u, auto, TRUE)
    \/ \E u \in Owners, j \in PairJobIds : ApproveAgenda(u, j, None, TRUE)
    \/ \E u \in Owners, j \in PairJobIds : RejectAgenda(u, j, AllOk)
    \/ \E t \in BagToSet(tasks) : TaskStart(t, AllOk)
    \/ \E t \in BagToSet(tasks) : AgendaResponse(t) /\ faults' = 0
    \/ \E t \in BagToSet(tasks) : InformationResponse(t) /\ faults' = 0
    \/ \E t \in BagToSet(tasks) : SlideResponse(t) /\ faults' = 0
    \/ \E t \in BagToSet(tasks) : ReviewResponse(t) /\ faults' = 0

PairSpec == InitIn(PairJobIds) /\ [][PairNext]_vars

\* the pipeline of one job with approve and reject signals and signals that
\* carry no decision, with no store fault
SignalNext ==
    \/ \E u \in Owners, auto \in BOOLEAN : StartJob(u, auto, TRUE)
    \/ \E u \in Users, j \in JobIds : ApproveAgenda(u, j, None, TRUE)
    \/ \E u \in Users, j \in JobIds : RejectAgenda(u, j, AllOk)
    \/ \E u \in Users, j \in JobIds : UndecidedSignal(u, j, AllOk)
    \/ \E t \in BagToSet(tasks) : TaskStart(t, AllOk)
    \/ \E t \in BagToSet(tasks) : AgendaResponse(t) /\ faults' = 0
    \/ \E t \in BagToSet(tasks) : InformationResponse(t) /\ faults' = 0
    \/ \E t \in BagToSet(tasks) : SlideResponse(t) /\ faults' = 0
    \/ \E t \in BagToSet(tasks) : ReviewResponse(t) /\ faults' = 0

SignalSpec == Init /\ [][SignalNext]_vars

\* ------------------------------------------------------- agenda worker
Min(a, b) == IF a <= b THEN a ELSE b

\* the values of max_slides a start request is drawn from
MaxSlidesInputs == 1..MaxSlides

\* AgendaGenerationExecutor._create_fallback_agenda: a title slide,
\* min(max_slides - 2, 8) section slides (none when that is not positive)
\* and a summary slide; a slide is its page_number and its title (the
\* section titles, numbered in the code, are one title here)
_create_fallback_agenda(max_slides) ==
    LET content_slides == Min(max_slides - 2, FALLBACK_CONTENT_CAP)
        first == <<[title |-> "title slide", page_number |-> 1]>>
        sections == [i \in 1..content_slides |->
                       [title |-> "section", page_number |-> (i - 1) + 2]]
        body == first \o sections
        slides == Append(body, [title |-> "summary",
                                page_number |-> Len(body) + 1])
    IN [slides |-> slides, total_pages |-> Len(slides),
        estimated_duration |-> Len(slides) * 2]

\* what the orchestrator reads of an agenda's slides: their titles, in order
Titles(agenda) == [i \in 1..Len(agenda.slides) |-> agenda.slides[i].title]

\* the agenda worker answers with its fallback agenda (the model's output
\* was not the JSON of an agenda)
FallbackAgendaResponse(t) ==
    Resume(t, "agenda", "agenda_call",
           RespOk(Titles(_create_fallback_agenda(t.job.request.max_slides))),
           AllOk)

\* the pipeline of a job whose request names max_slides, with the agenda
\* worker answering with the model's agenda or with its fallback agenda,
\* with no store fault
FallbackNext ==
    \/ \E u \in Owners, n \in MaxSlidesInputs :
         StartJobWith(JobIds, u, SlideGenerationRequestWith(FALSE, n), TRUE)
    \/ \E u \in Owners, j \in JobIds : ApproveAgenda(u, j, None, TRUE)
    \/ \E t \in BagToSet(tasks) : TaskStart(t, AllOk)
    \/ \E t \in BagToSet(tasks) : FallbackAgendaResponse(t)
    \/ \E t \in BagToSet(tasks) : AgendaResponse(t) /\ faults' = 0
    \/ \E t \in BagToSet(tasks) : InformationResponse(t) /\ faults' = 0
    \/ \E t \in BagToSet(tasks) : SlideResponse(t) /\ faults' = 0
    \/ \E t \in BagToSet(tasks) : ReviewResponse(t) /\ faults' = 0

FallbackSpec == Init /\ [][FallbackNext]_vars

\* ------------------------------------------------------------- gateway
\* the body an endpoint returns
Reply(body) == [kind |-> "reply", res |-> body, msg |-> <<>>]

\* a step of the gateway that leaves the stores and the tasks alone
Answer(step) ==
    /\ last' = step
    /\ UNCHANGED <<slide_jobs, generation_history, tasks, spawned, calls,
                   faults, approved, rejected, worker_failed, completed>>

GetJob_touching(user, j, ok) ==
    LET job_data == get_job_status(j, user)
    IN /\ last' = Step("get_job", user, j,
                       IF ok /\ ~IsNone(job_data) THEN Reply(job_data) ELSE NoResp,
                       IF ok THEN 0 ELSE 1, "none", ok /\ ~IsNone(job_data),
                       None, StatusOf(j), <<>>, {})
       /\ slide_jobs' = IF ok /\ ~IsNone(job_data)
                        THEN [slide_jobs EXCEPT ![j].progress = PROGRESS_DEFAULT]
                        ELSE slide_jobs
       /\ UNCHANGED <<generation_history, tasks, spawned, calls, faults,
                      approved, rejected, worker_failed, completed>>

\* GET /jobs/{job_id}: the record read under the caller's partition, 404
\* when read_item finds none; a read that raises is an unhandled error
GetJob(user, j, ok) ==
    LET job_data == get_job_status(j, user)
    IN Answer(Step("get_job", user, j,
                   IF ok /\ ~IsNone(job_data) THEN Reply(job_data) ELSE NoResp,
                   IF ok THEN 0 ELSE 1, "none", ok /\ ~IsNone(job_data),
                   None, StatusOf(j), <<>>, {}))

Cancel_interrupting(j) ==
    /\ last' = Step("cancel", "none", j, NoResp, 0, "none", TRUE, None,
                    StatusOf(j), <<>>, {})
    /\ tasks' = EmptyBag
    /\ UNCHANGED <<slide_jobs, generation_history, spawned, calls, faults,
                   approved, rejected, worker_failed, completed>>

\* OrchestrationExecutor.cancel: "TODO", returns True
Cancel(j) ==
    Answer(Step("cancel", "none", j, NoResp, 0, "none", TRUE, None,
                StatusOf(j), <<>>, {}))

\* the endpoints of the orchestration core, all behind
\* Depends(get_current_user_id)
Endpoints ==
    {"generate-slides", "approve-agenda", "jobs/{job_id}", "jobs", "history"}

Unauthenticated_anonymous(endpoint) ==
    /\ last' = Step("unauthenticated", "none", 0, NoResp, 0, "none", FALSE,
                    None, "none", <<>>, {})
    /\ slide_jobs' = [slide_jobs EXCEPT ![1] =
                        job_dict(SlideGenerationJob(1, "anonymous",
                                                    SlideGenerationRequest(FALSE)))]
    /\ UNCHANGED <<generation_history, tasks, spawned, calls, faults,
                   approved, rejected, worker_failed, completed>>

\* get_current_user_id raises HTTPException(401) when there is no
\* Authorization header, when extract_user_from_token resolves no user, or
\* when the user info holds no id: the endpoint's body does not run
Unauthenticated(endpoint) ==
    Answer(Step("unauthenticated", "none", 0, NoResp, 0, "none", FALSE, None,
                "none", <<>>, {}))

InvalidStart_creating(user) ==
    /\ last' = Step("invalid_start", user, 0, NoResp, 0, "none", FALSE, None,
                    "none", <<>>, {})
    /\ slide_jobs' = [slide_jobs EXCEPT ![1] =
                        job_dict(SlideGenerationJob(1, user,
                                                    SlideGenerationRequest(FALSE)))]
    /\ UNCHANGED <<generation_history, tasks, spawned, calls, faults,
                   approved, rejected, worker_failed, completed>>

\* a start request whose payload SlideGenerationRequest rejects (no
\* prompt): the ValidationError is raised before the job is built
InvalidStart(user) ==
    Answer(Step("invalid_start", user, 0, NoResp, 0, "none", FALSE, None,
                "none", <<>>, {}))

\* the status code the step just taken was answered with
HttpStatus ==
    CASE last.op = "unauthenticated" -> HTTP_UNAUTHORIZED
      [] last.op = "get_job" ->
           IF last.nf > 0 THEN HTTP_SERVER_ERROR
           ELSE IF last.success THEN HTTP_OK ELSE HTTP_NOT_FOUND
      [] last.op \in {"approve", "approve_not_found", "reject",
                      "reject_not_found"} -> approve_agenda(last.success)
      [] last.op = "start_job" ->
           IF last.success THEN HTTP_OK ELSE HTTP_SERVER_ERROR

\* the pipeline without store faults and with at most MaxApiTasks tasks,
\* and the gateway around it
ApiNext ==
    \/ Next /\ faults' = 0 /\ spawned' <= MaxApiTasks
    \/ \E u \in Users, j \in JobIds, ok \in BOOLEAN : GetJob(u, j, ok)
    \/ \E j \in JobIds : Cancel(j)
    \/ \E e \in Endpoints : Unauthenticated(e)
    \/ \E u \in Owners : InvalidStart(u)

ApiSpec == Init /\ [][ApiNext]_vars

\* what the event loop guarantees: a scheduled task is started, and a task
\* whose worker has answered is resumed
TaskProgress ==
    \E t \in BagToSet(tasks) :
      \/ \E so \in Outcomes : TaskStart(t, so)
      \/ AgendaResponse(t)
      \/ InformationResponse(t)
      \/ SlideResponse(t)
      \/ ReviewResponse(t)

LiveSpec == Init /\ [][Next]_vars /\ WF_vars(TaskProgress)

\* ------------------------------------------------------------ properties
Records == {j \in JobIds : ~IsNone(slide_jobs[j])}

\* the pipeline order of the statuses; FAILED stands outside it
Rank(status) ==
    CASE status = AGENDA_GENERATION -> 1
      [] status = AGENDA_APPROVAL -> 2
      [] status = INFORMATION_COLLECTION -> 3
      [] status = SLIDE_CREATION -> 4
      [] status = REVIEW -> 5
      [] status = COMPLETED -> 6
      [] OTHER -> 0

\* the statuses the record of the step's job went through in the step just
\* taken: the one before it, then each one the step persisted
Chain == <<last.before>> \o last.writes

HistoryCount(j) ==
    Cardinality({i \in 1..Len(generation_history) : generation_history[i].job_id = j})

TaskSteps == {"task_start", "agenda", "information", "slide", "review"}

\* C1: every persisted job record is COMPLETED with result_blob_url set and
\* error_message null, or FAILED with error_message set and result_blob_url
\* null, or in progress with both null.
C1_RecordConsistent ==
    \A j \in Records :
      LET r == slide_jobs[j]
      IN \/ r.status = COMPLETED /\ ~IsNone(r.result_blob_url) /\ IsNone(r.error_message)
         \/ r.status = FAILED /\ ~IsNone(r.error_message) /\ IsNone(r.result_blob_url)
         \/ r.status \notin {COMPLETED, FAILED} /\ IsNone(r.result_blob_url)
              /\ IsNone(r.error_message)

\* C2: each change of a job's persisted status moves to the immediate
\* successor in the pipeline order or to FAILED.
C2_StageOrder ==
    \A i \in 1..(Len(Chain) - 1) :
      (Chain[i] # "none" /\ Chain[i + 1] # Chain[i]) =>
        \/ Chain[i + 1] = FAILED
        \/ Rank(Chain[i]) > 0 /\ Rank(Chain[i + 1]) = Rank(Chain[i]) + 1

\* C3: once a job's persisted status is COMPLETED or FAILED no later
\* operation changes it.
C3_TerminalStatus ==
    \A i \in 1..(Len(Chain) - 1) :
      Chain[i] \in {COMPLETED, FAILED} => Chain[i + 1] = Chain[i]

\* C4: generation_history holds exactly one entry for a job once a task has
\* persisted COMPLETED for it and ended, never two entries for one job, and
\* none for a job that never reached COMPLETED.
C4_OneHistoryEntry ==
    /\ \A j \in JobIds : HistoryCount(j) <= 1
    /\ \A j \in JobIds : j \notin completed => HistoryCount(j) = 0
    /\ (last.op \in TaskSteps /\ last.pc \in Ended /\ COMPLETED \in Stages(last.writes))
         => HistoryCount(last.job) = 1

\* C5: a processed reject signal leaves the job's record FAILED with
\* error_message "User rejected agenda", whatever stage it was in.
C5_RejectYieldsFailed ==
    (last.op = "reject" /\ last.success) =>
      /\ slide_jobs[last.job].status = FAILED
      /\ slide_jobs[last.job].error_message = Str(REJECTED_TEXT)

C5_Witness ==
    /\ last.op = "reject" /\ last.success
    /\ last.before = SLIDE_CREATION
    /\ slide_jobs[last.job].error_message = Str(REJECTED_TEXT)

\* C6: after a reject signal for a job has been processed, no
\* information-collection, slide-creation or review worker is called for
\* the job and no later stage is persisted for it.
C6_RejectionBypasses ==
    (last.op \in TaskSteps /\ last.job \in rejected) =>
      /\ last.issued \cap {"information", "slide", "review"} = {}
      /\ Stages(last.writes) \cap
           {INFORMATION_COLLECTION, SLIDE_CREATION, REVIEW, COMPLETED} = {}

\* the f-string prefix of the stage's "... failed: {response.error}"
Prefix(stage) ==
    CASE stage = "agenda" -> AGENDA_FAILED_PREFIX
      [] stage = "information" -> INFO_FAILED_PREFIX
      [] stage = "slide" -> SLIDE_FAILED_PREFIX

WorkerFailureStep ==
    /\ last.op \in {"agenda", "information", "slide"}
    /\ last.resp.kind = "fail"
    /\ last.nf = 0

LaterWorkers(k) ==
    CASE k = "agenda" -> {"information", "slide", "review"}
      [] k = "information" -> {"slide", "review"}
      [] k = "slide" -> {"review"}
      [] OTHER -> {}

LaterStatuses(k) ==
    CASE k = "agenda" -> {AGENDA_APPROVAL, INFORMATION_COLLECTION,
                          SLIDE_CREATION, REVIEW, COMPLETED}
      [] k = "information" -> {SLIDE_CREATION, REVIEW, COMPLETED}
      [] k = "slide" -> {REVIEW, COMPLETED}
      [] OTHER -> {COMPLETED}

\* C8: after a worker failure at stage k of a job, no worker of a later
\* stage is called for the job and no later stage is persisted for it.
C8_NoStageAfterFailure ==
    last.op \in TaskSteps =>
      \A k \in worker_failed[last.job] :
        /\ last.issued \cap LaterWorkers(k) = {}
        /\ Stages(last.writes) \cap LaterStatuses(k) = {}

\* C9: whenever a pipeline task ends, the job's persisted status is
\* AGENDA_APPROVAL, COMPLETED or FAILED, and on a failure path
\* error_message has been written.
C9_NoStaleStage ==
    (last.op \in TaskSteps /\ last.pc \in Ended) =>
      /\ slide_jobs[last.job].status \in {AGENDA_APPROVAL, COMPLETED, FAILED}
      /\ (last.resp.kind \in {"fail", "raise"} \/ ~last.success) =>
           ~IsNone(slide_jobs[last.job].error_message)

\* C10: once the assembly worker has returned success, the task persists
\* COMPLETED whether the review worker answers success or failure; a
\* failure answer of the review never makes it persist FAILED.
C10_ReviewAdvisory ==
    (last.op = "review" /\ last.resp.kind \in {"ok", "fail"} /\ last.nf = 0) =>
      /\ slide_jobs[last.job].status = COMPLETED
      /\ FAILED \notin Stages(last.writes)
      /\ last.pc = "done"

C10_Witness ==
    /\ last.op = "review" /\ last.resp.kind = "fail" /\ last.nf = 0
    /\ slide_jobs[last.job].status = COMPLETED

WorkerSteps == {"agenda", "information", "slide", "review"}

\* C11: when a worker call of any of the four stages raises an exception e,
\* the task catches it and (its record update succeeding) the record is
\* FAILED with error_message equal to the message of e, and the task ends
\* normally.
C11_ExceptionYieldsFailed ==
    (last.op \in WorkerSteps /\ last.resp.kind = "raise" /\ last.nf = 0) =>
      /\ slide_jobs[last.job].status = FAILED
      /\ slide_jobs[last.job].error_message = Str(last.resp.msg)
      /\ last.writes = <<FAILED>>
      /\ last.pc = "done"

C11_Witness ==
    /\ last.op = "review" /\ last.resp.kind = "raise" /\ last.nf = 0
    /\ slide_jobs[last.job].status = FAILED
    /\ slide_jobs[last.job].error_message = Str(last.resp.msg)

Hung(j) == \E t \in BagToSet(tasks) : t.job_id = j /\ t.pc = "hung"

\* C12: a job whose worker call never returns eventually reaches FAILED
\* (the call is cut off by a timeout and handled like a worker failure).
C12_HangEndsFailed ==
    \A j \in JobIds : Hung(j) ~> (StatusOf(j) = FAILED)

\* the tasks of job j that have not ended, each copy counted
ActiveTasks(j) ==
    LET S == {t \in BagToSet(tasks) : t.job_id = j}
        sum[T \in SUBSET S] ==
            IF T = {} THEN 0
            ELSE LET t == CHOOSE x \in T : TRUE
                 IN CopiesIn(t, tasks) + sum[T \ {t}]
    IN sum[S]

\* C13: at any moment at most one pipeline task is active for a given job.
C13_OneActiveTask ==
    \A j \in JobIds : ActiveTasks(j) <= 1

\* the workers up to and including w, in pipeline order
UpTo(w) ==
    CASE w = "agenda" -> {"agenda"}
      [] w = "information" -> {"agenda", "information"}
      [] w = "slide" -> {"agenda", "information", "slide"}
      [] w = "review" -> {"agenda", "information", "slide", "review"}

\* the status that marks the job as being in worker w's stage
StageStatus(w) ==
    CASE w = "agenda" -> AGENDA_GENERATION
      [] w = "information" -> INFORMATION_COLLECTION
      [] w = "slide" -> SLIDE_CREATION
      [] w = "review" -> REVIEW

\* C14: within a job the workers are called strictly in pipeline order (when
\* worker w is called, the workers called so far for the job are exactly
\* those up to w), and w is called only after the update marking its stage
\* was persisted (by the creating handler for the agenda stage, by the
\* calling run for the others).
C14_CallsInOrder ==
    last.op \in TaskSteps =>
      \A w \in last.issued :
        /\ calls[last.job] = UpTo(w)
        /\ w = "agenda" => ~IsNone(slide_jobs[last.job])
        /\ w # "agenda" => StageStatus(w) \in Stages(last.writes)

\* C15: the persisted progress of a job never decreases from one persisted
\* update to the next (the updates of one run take ascending checkpoints;
\* this compares the record before and after every step).
C15_ProgressMonotone ==
    [][\A j \in JobIds :
         (~IsNone(slide_jobs[j]) /\ ~IsNone(slide_jobs'[j])) =>
           slide_jobs'[j].progress >= slide_jobs[j].progress]_vars

\* the progress checkpoint of a status
Checkpoint(status) ==
    CASE status = AGENDA_GENERATION -> PROGRESS_AGENDA
      [] status = AGENDA_APPROVAL -> PROGRESS_APPROVAL
      [] status = INFORMATION_COLLECTION -> PROGRESS_INFORMATION
      [] status = SLIDE_CREATION -> PROGRESS_SLIDE
      [] status = REVIEW -> PROGRESS_REVIEW
      [] status = COMPLETED -> PROGRESS_COMPLETED
      [] OTHER -> PROGRESS_DEFAULT

\* C16: in every persisted record whose status is not FAILED, progress is
\* the checkpoint of the status (AGENDA_GENERATION 10, AGENDA_APPROVAL 25,
\* INFORMATION_COLLECTION 50, SLIDE_CREATION 75, REVIEW 90, COMPLETED 100).
C16_ProgressMatchesStatus ==
    \A j \in Records :
      slide_jobs[j].status # FAILED =>
        slide_jobs[j].progress = Checkpoint(slide_jobs[j].status)

AutoApproved(j) ==
    ~IsNone(slide_jobs[j]) /\ slide_jobs[j].request.auto_approval

SignalOps == {"approve", "approve_not_found", "reject", "reject_not_found"}

\* C17: a job started with auto_approval = true eventually is COMPLETED
\* with result_blob_url set and one history entry, unless a worker fails,
\* raises or hangs, a store operation raises, or a signal is sent.
C17_AutoApprovalCompletes ==
    \A j \in JobIds :
      AutoApproved(j) ~>
        \/ /\ StatusOf(j) = COMPLETED
           /\ ~IsNone(slide_jobs[j].result_blob_url)
           /\ HistoryCount(j) = 1
        \/ last.resp.kind \in {"fail", "raise"}
        \/ last.op = "hang"
        \/ last.op \in SignalOps
        \/ faults > 0

\* job j waits for its approval: not auto-approved, AGENDA_APPROVAL
\* persisted, no approve or reject signal processed for it
Stalled(j) ==
    /\ StatusOf(j) = AGENDA_APPROVAL
    /\ ~slide_jobs[j].request.auto_approval
    /\ j \notin approved \cup rejected

\* C18: for a job without auto_approval, the run that persists
\* AGENDA_APPROVAL persists nothing else, calls no worker and ends the task;
\* while no approve or reject signal has been processed for the job, no
\* task is active for it, no worker is called for it and its record does
\* not change.
C18_StallsUntilSignal ==
    /\ [](\A j \in JobIds : Stalled(j) => ActiveTasks(j) = 0)
    /\ []((last.op = "agenda" /\ last.job \notin approved \cup rejected
            /\ AGENDA_APPROVAL \in Stages(last.writes)
            /\ ~slide_jobs[last.job].request.auto_approval) =>
             /\ last.writes = <<AGENDA_APPROVAL>>
             /\ last.issued = {}
             /\ last.pc = "done")
    /\ [][\A j \in JobIds :
            (Stalled(j) /\ j \notin approved' \cup rejected') =>
              /\ slide_jobs'[j] = slide_jobs[j]
              /\ calls'[j] = calls[j]
              /\ {t \in BagToSet(tasks') : t.job_id = j} = {}]_vars

C18_Witness ==
    /\ last.op = "reject_not_found"
    /\ Stalled(last.job)
    /\ ActiveTasks(last.job) = 0
    /\ calls[last.job] = {"agenda"}

\* C19: when a start call has returned its job id, the record is in the
\* store under the caller's id, GetJob finds it with status PENDING or
\* AGENDA_GENERATION and progress at most 25, and no worker has been called
\* for the job: its task is scheduled and has not run.
C19_StartedJobObservable ==
    (last.op = "start_job" /\ last.success) =>
      LET job_data == get_job_status(last.job, last.user)
      IN /\ ~IsNone(job_data)
         /\ job_data.id = last.job
         /\ job_data.status \in {PENDING, AGENDA_GENERATION}
         /\ job_data.progress <= PROGRESS_APPROVAL
         /\ calls[last.job] = {}
         /\ \A t \in BagToSet(tasks) : t.job_id = last.job => t.pc = "start"

C19_Witness ==
    /\ last.op = "start_job" /\ last.success
    /\ ~IsNone(get_job_status(last.job, last.user))
    /\ get_job_status(last.job, last.user).status = AGENDA_GENERATION
    /\ ActiveTasks(last.job) = 1

\* the store holds no record with id j whose owner is user
NoRecord(j, user) ==
    IsNone(slide_jobs[j]) \/ slide_jobs[j].user_id # user

\* C20: an approve or reject signal whose (job id, user) pair has no record
\* in the store is answered with an error and changes no record, adds no
\* history entry and spawns no task; so is a signal sent by a user who is
\* not the job's owner.
C20_UnknownJobSignal ==
    [][(last'.op \in SignalOps /\ NoRecord(last'.job, last'.user)) =>
        /\ ~last'.success
        /\ slide_jobs' = slide_jobs
        /\ generation_history' = generation_history
        /\ tasks' = tasks
        /\ spawned' = spawned]_vars

C20_Witness ==
    /\ last.op = "approve_not_found"
    /\ ~IsNone(slide_jobs[last.job])
    /\ slide_jobs[last.job].user_id # last.user
    /\ ~last.success

\* C21: the approval endpoint answers a signal for an absent (job id, user)
\* pair with a not-found error, the kind GetJob returns for an absent job.
C21_ApprovalNotFound ==
    (last.op \in SignalOps /\ NoRecord(last.job, last.user) /\ last.nf = 0) =>
      /\ approve_agenda(last.success) = HTTP_NOT_FOUND
      /\ approve_agenda(last.success) = get_job_status_code(last.job, last.user)

\* the slides of an agenda held by a job object or a record, <<>> if absent
SlidesOf(agenda) == IF IsNone(agenda) THEN <<>> ELSE agenda.slides

\* C22: an approve signal installs the replacement agenda it carries (the
\* stored agenda when it carries none) in the job its continuation runs
\* with; the continuation of a job that has an agenda persists
\* INFORMATION_COLLECTION with that agenda and calls the information
\* worker with it.
C22_ReplacementInstalled ==
    /\ (last.op = "approve" /\ last.success) =>
         \E t \in BagToSet(tasks) :
           /\ t.fn = "continue" /\ t.pc = "enter" /\ t.job_id = last.job
           /\ SlidesOf(t.job.agenda) =
                IF last.resp.kind = "agenda" THEN last.resp.res
                ELSE SlidesOf(slide_jobs[last.job].agenda)
    /\ (last.op = "task_start" /\ last.nf = 0
         /\ INFORMATION_COLLECTION \in Stages(last.writes)
         /\ ~IsNone(slide_jobs[last.job].agenda)) =>
         /\ last.writes = <<INFORMATION_COLLECTION>>
         /\ last.issued = {"information"}
         /\ \E t \in BagToSet(tasks) :
              /\ t.job_id = last.job /\ t.pc = "info_call"
              /\ SlidesOf(t.job.agenda) = SlidesOf(slide_jobs[last.job].agenda)

\* C23: the history entry appended on completion has the job's id, the
\* job's owner, slide_count equal to the number of slides of the job's
\* agenda (0 if absent) and title equal to the first slide's title if there
\* is one, the fixed placeholder otherwise.
C23_HistoryEntryFields ==
    [][Len(generation_history') > Len(generation_history) =>
        LET e == generation_history'[Len(generation_history')]
            r == slide_jobs'[last'.job]
            slides == SlidesOf(r.agenda)
        IN /\ Len(generation_history') = Len(generation_history) + 1
           /\ e.job_id = r.id
           /\ e.job_id = last'.job
           /\ e.user_id = r.user_id
           /\ e.slide_count = Len(slides)
           /\ e.title = IF Len(slides) > 0 THEN <<slides[1]>> ELSE UNTITLED]_vars

C23_Witness ==
    /\ last.op = "review" /\ last.pc = "done"
    /\ Len(generation_history) = 1
    /\ generation_history[1].job_id = last.job
    /\ generation_history[1].title = UNTITLED
    /\ generation_history[1].slide_count = 0
    /\ ~IsNone(slide_jobs[last.job].agenda)

\* C24: GetJob returns a job only when a record with that id is stored
\* under the caller; for an absent id or a record of another user it fails
\* with not-found and returns nothing of the record.
C24_GetJobOwnerOnly ==
    (last.op = "get_job" /\ last.nf = 0) =>
      IF NoRecord(last.job, last.user)
      THEN /\ ~last.success
           /\ HttpStatus = HTTP_NOT_FOUND
           /\ last.resp = NoResp
      ELSE /\ last.success
           /\ HttpStatus = HTTP_OK
           /\ last.resp = Reply(slide_jobs[last.job])
           /\ last.resp.res.id = last.job
           /\ last.resp.res.user_id = last.user

C24_Witness ==
    /\ last.op = "get_job" /\ last.nf = 0
    /\ ~IsNone(slide_jobs[last.job])
    /\ slide_jobs[last.job].user_id # last.user
    /\ HttpStatus = HTTP_NOT_FOUND

\* everything but the step record is as it was
Untouched ==
    UNCHANGED <<slide_jobs, generation_history, tasks, spawned, calls, faults,
                approved, rejected, worker_failed, completed>>

C26_IdentityImmutable ==
    [][\A j \in JobIds :
         (~IsNone(slide_jobs[j]) /\ ~IsNone(slide_jobs'[j])) =>
           /\ slide_jobs'[j].id = slide_jobs[j].id
           /\ slide_jobs'[j].id = j
           /\ slide_jobs'[j].user_id = slide_jobs[j].user_id
           /\ slide_jobs'[j].request = slide_jobs[j].request]_vars

C26_Witness ==
    /\ last.op = "review" /\ last.job \in approved \cap rejected
    /\ slide_jobs[last.job].status = COMPLETED
    /\ slide_jobs[last.job].user_id \in Owners
    /\ slide_jobs[last.job].request = SlideGenerationRequest(FALSE)

\* C27: no operation removes a job record or modifies or removes a history
\* entry: the set of job ids only grows and history is append-only.
C27_NothingDeleted ==
    [][/\ \A j \in JobIds : ~IsNone(slide_jobs[j]) => ~IsNone(slide_jobs'[j])
       /\ Len(generation_history') >= Len(generation_history)
       /\ SubSeq(generation_history', 1, Len(generation_history))
            = generation_history]_vars

C27_Witness ==
    /\ Len(generation_history) = 2
    /\ last.op = "review"
    /\ COMPLETED \in Stages(last.writes)
    /\ last.job \in rejected
    /\ ~IsNone(slide_jobs[last.job])

EntriesOf(history, b) == SelectSeq(history, LAMBDA e : e.job_id = b)

\* C30: a step taken for one job leaves the persisted record and the
\* history entries of every other job unchanged, under any interleaving.
C30_JobsIndependent ==
    [][\A b \in PairJobIds :
         b # last'.job =>
           /\ slide_jobs'[b] = slide_jobs[b]
           /\ EntriesOf(generation_history', b) = EntriesOf(generation_history, b)
      ]_vars

C30_Witness ==
    /\ last.op \in TaskSteps /\ last.job = 2 /\ last.writes # <<>>
    /\ \E t \in BagToSet(tasks) : t.job_id = 1 /\ t.pc \in Waiting
    /\ slide_jobs[1].status = INFORMATION_COLLECTION
    /\ slide_jobs[2].status = AGENDA_APPROVAL

\* C31: GetJob is read-only and answers with the stored record: a GetJob
\* step changes no job record, no history entry and no task, and when it
\* succeeds its body is the record of (job id, caller) as stored, so two
\* calls with no transition of the job in between return equal records.
C31_GetJobReadOnly ==
    [][last'.op = "get_job" =>
         /\ slide_jobs' = slide_jobs
         /\ generation_history' = generation_history
         /\ tasks' = tasks
         /\ last'.success =>
              /\ ~NoRecord(last'.job, last'.user)
              /\ last'.resp = Reply(slide_jobs[last'.job])
      ]_vars

C31_Witness ==
    /\ last.op = "get_job" /\ last.success
    /\ last.resp = Reply(slide_jobs[last.job])
    /\ slide_jobs[last.job].status = INFORMATION_COLLECTION
    /\ tasks # EmptyBag

\* C32: the approval transition fires only from AGENDA_APPROVAL: an approve
\* signal that is accepted (it spawns a continuation) found the record in
\* AGENDA_APPROVAL; for a record in any other status it starts nothing.
C32_ApprovalOnlyWhenAwaited ==
    (last.op = "approve" /\ last.success) => last.before = AGENDA_APPROVAL

\* the label of current_step that belongs to a status
StepLabel(status) ==
    CASE status = AGENDA_GENERATION -> STEP_AGENDA
      [] status = AGENDA_APPROVAL -> STEP_APPROVAL
      [] status = INFORMATION_COLLECTION -> STEP_INFORMATION
      [] status = SLIDE_CREATION -> STEP_SLIDE
      [] status = REVIEW -> STEP_REVIEW
      [] status = COMPLETED -> STEP_COMPLETED
      [] status = FAILED -> STEP_ERROR

\* C33: in every persisted job record current_step is the label that
\* belongs to the record's status, the error label for FAILED included,
\* also after a rejection.
C33_StepMatchesStatus ==
    \A j \in Records : slide_jobs[j].current_step = StepLabel(slide_jobs[j].status)

\* the stages of the pipeline, the first one included
PipelineStages ==
    {AGENDA_GENERATION, AGENDA_APPROVAL, INFORMATION_COLLECTION, SLIDE_CREATION,
     REVIEW, COMPLETED}

\* C34: in every persisted job record whose status is AGENDA_GENERATION or
\* a later pipeline stage the agenda is present (not null).
C34_AgendaPresent ==
    \A j \in Records :
      slide_jobs[j].status \in PipelineStages => ~IsNone(slide_jobs[j].agenda)

\* C35: the slide_count of the history entry of a completed job does not
\* exceed the max_slides of the job's request, and the fallback agenda
\* built for max_slides = n has at most n slides, numbered 1..k
\* consecutively, with total_pages = k.
C35_SlideCountWithinMax ==
    /\ \A i \in 1..Len(generation_history) :
         LET e == generation_history[i]
         IN ~IsNone(slide_jobs[e.job_id]) =>
              e.slide_count <= slide_jobs[e.job_id].request.max_slides
    /\ \A j \in Records :
         LET n == slide_jobs[j].request.max_slides
             a == _create_fallback_agenda(n)
             k == Len(a.slides)
         IN /\ k <= n
            /\ a.total_pages = k
            /\ \A i \in 1..k : a.slides[i].page_number = i

C37_HistoryMatchesRecord ==
    \A i \in 1..Len(generation_history) :
      LET h == generation_history[i]
          r == slide_jobs[h.job_id]
      IN /\ ~IsNone(r)
         /\ r.status = COMPLETED
         /\ r.result_blob_url = h.blob_url

\* C38: if persisting the new job record fails during start, the start
\* call returns a failure, no pipeline task is spawned by it, and no worker
\* is ever called for a job that has no record in the store.
C38_FailedStartSpawnsNothing ==
    /\ (last.op = "start_job" /\ last.nf > 0) =>
         /\ ~last.success
         /\ IsNone(slide_jobs[last.job])
         /\ \A t \in BagToSet(tasks) : t.job_id # last.job
    /\ \A j \in JobIds :
         IsNone(slide_jobs[j]) =>
           /\ calls[j] = {}
           /\ \A t \in BagToSet(tasks) : t.job_id # j

C38_Witness ==
    /\ last.op = "start_job" /\ last.nf > 0 /\ ~last.success
    /\ IsNone(slide_jobs[last.job])
    /\ tasks = EmptyBag /\ spawned = 0

\* C39: an approval signal for an existing job whose payload carries no
\* 'approved' field is treated as a rejection: the record becomes FAILED
\* with error_message "User rejected agenda" and no continuation is
\* spawned; a task is spawned by a signal only when 'approved' is true.
C39_UndecidedIsRejection ==
    [][/\ last'.op = "undecided" =>
            /\ tasks' = tasks /\ spawned' = spawned
            /\ last'.success =>
                 /\ slide_jobs'[last'.job].status = FAILED
                 /\ slide_jobs'[last'.job].error_message = Str(REJECTED_TEXT)
       /\ spawned' > spawned => last'.op \in {"start_job", "approve"}
      ]_vars

C39_Witness ==
    /\ last.op = "undecided" /\ last.success
    /\ last.before = AGENDA_APPROVAL
    /\ slide_jobs[last.job].status = FAILED
    /\ slide_jobs[last.job].error_message = Str(REJECTED_TEXT)
    /\ tasks = EmptyBag

====
